---- MODULE Spec2Model ----
(***************************************************************************)
(* Model of src/Cap.py: the diagnostic index built from an uploaded XML    *)
(* data dictionary (build_diagnostic_index) and the rule-based query       *)
(* handler that answers free-text questions from it (handle_query).        *)
(*                                                                         *)
(* A Python str is a sequence of one-character strings, so that lower(),   *)
(* split(), `in`, replace() and the regular expressions are computed on    *)
(* characters as the code computes them.  A Python dict is a sequence of   *)
(* [k, v] entries in insertion order; None is <<>> and a present value v   *)
(* is <<v>>.                                                               *)
(*                                                                         *)
(* query, answer and status are the locals of the script run that          *)
(* searched; upload_error tells that the upload page shows the st.error of *)
(* a file that did not parse.  Of st.session_state, history (written after a search, read   *)
(* only by the "Recent Queries" display) and should_search (set by the     *)
(* example buttons, which fill in the question) are left out: neither is   *)
(* read by build_diagnostic_index or handle_query.                         *)
(***************************************************************************)
EXTENDS Integers, Sequences, FiniteSets, TLC

VARIABLES xml_loaded, root, diag_index, USE_AI, query, answer, status, upload_error

vars == <<xml_loaded, root, diag_index, USE_AI, query, answer, status, upload_error>>

----------------------------------------------------------------------------
(* Bounds of the checked instances.                                        *)

MaxRecords == 3
MaxQueryRecords == 2
MaxTail == 1
MaxPageIds == 6

----------------------------------------------------------------------------
(* Python values.                                                          *)

None == <<>>
Some(v) == <<v>>
Get(o) == o[1]

Min(S) == CHOOSE m \in S : \A n \in S : m <= n

Digits == <<"0", "1", "2", "3", "4", "5", "6", "7", "8", "9">>
UpperLetters == <<"A", "B", "C", "D", "E", "F", "G", "H", "I", "J", "K", "L", "M",
                  "N", "O", "P", "Q", "R", "S", "T", "U", "V", "W", "X", "Y", "Z">>
LowerLetters == <<"a", "b", "c", "d", "e", "f", "g", "h", "i", "j", "k", "l", "m",
                  "n", "o", "p", "q", "r", "s", "t", "u", "v", "w", "x", "y", "z">>

(* The characters of the model in code-point order. *)
Alphabet == <<" ">> \o Digits \o <<":", "?">> \o UpperLetters \o <<"_">> \o LowerLetters

Range(s) == {s[i] : i \in 1..Len(s)}

(* ord(c), as the position in Alphabet *)
Ord == [c \in Range(Alphabet) |-> CHOOSE i \in 1..Len(Alphabet) : Alphabet[i] = c]

DigitChars == Range(Digits)
WordChars == Range(Digits) \cup Range(UpperLetters) \cup Range(LowerLetters) \cup {"_"}

SpaceChars == {" "}
SolidChars == Range(Alphabet) \ SpaceChars
SepChars == {":"} \cup SpaceChars

IsSpace(c) == c \in SpaceChars
IsDigit(c) == c \in DigitChars
IsWordChar(c) == c \in WordChars

(* str.lower() *)
LowerChar ==
    [c \in Range(Alphabet) |->
        IF c \in Range(UpperLetters)
        THEN LowerLetters[CHOOSE i \in 1..Len(UpperLetters) : UpperLetters[i] = c]
        ELSE c]

RECURSIVE Lower(_)
Lower(s) == IF s = <<>> THEN <<>> ELSE <<LowerChar[Head(s)]>> \o Lower(Tail(s))

(* needle in hay *)
StartsAt(hay, i, needle) ==
    /\ i + Len(needle) - 1 <= Len(hay)
    /\ \A k \in 1..Len(needle) : hay[i + k - 1] = needle[k]

Contains(hay, needle) == \E i \in 1..(Len(hay) - Len(needle) + 1) : StartsAt(hay, i, needle)

(* The first index >= i of s whose character is not in chars, Len(s)+1     *)
(* when none.                                                              *)
RunEnd(s, i, chars) ==
    LET stop == {k \in i..Len(s) : s[k] \notin chars}
    IN  IF stop = {} THEN Len(s) + 1 ELSE Min(stop)

(* str.strip() *)
Strip(s) ==
    LET solid == {k \in 1..Len(s) : ~IsSpace(s[k])}
    IN  IF solid = {} THEN <<>>
        ELSE SubSeq(s, Min(solid), CHOOSE m \in solid : \A n \in solid : n <= m)

(* str.split(): the maximal runs of non-whitespace, in order. *)
RECURSIVE SplitFrom(_, _)
SplitFrom(s, i) ==
    IF i > Len(s) THEN <<>>
    ELSE IF IsSpace(s[i]) THEN SplitFrom(s, i + 1)
    ELSE LET e == RunEnd(s, i, SolidChars)
         IN  <<SubSeq(s, i, e - 1)>> \o SplitFrom(s, e)

Split(s) == SplitFrom(s, 1)

(* str.replace(old, ""): every non-overlapping occurrence, left to right. *)
RECURSIVE RemoveFrom(_, _, _)
RemoveFrom(s, i, old) ==
    IF i > Len(s) THEN <<>>
    ELSE IF StartsAt(s, i, old) THEN RemoveFrom(s, i + Len(old), old)
    ELSE <<s[i]>> \o RemoveFrom(s, i + 1, old)

Remove(s, old) == RemoveFrom(s, 1, old)

(* s < t for Python strings: lexicographic on code points. *)
RECURSIVE StrLess(_, _)
StrLess(s, t) ==
    IF t = <<>> THEN FALSE
    ELSE IF s = <<>> THEN TRUE
    ELSE IF s[1] = t[1] THEN StrLess(Tail(s), Tail(t))
    ELSE Ord[s[1]] < Ord[t[1]]

(* sorted(S) for a set of strings *)
RECURSIVE Sorted(_)
Sorted(S) ==
    IF S = {} THEN <<>>
    ELSE LET m == CHOOSE x \in S : \A y \in S \ {x} : StrLess(x, y)
         IN  <<m>> \o Sorted(S \ {m})

(* seq[:n] *)
Take(seq, n) == SubSeq(seq, 1, IF Len(seq) < n THEN Len(seq) ELSE n)

(* dict: entries [k, v] in insertion order. *)
DictKeys(d) == [i \in 1..Len(d) |-> d[i].k]
DictHas(d, key) == \E i \in 1..Len(d) : d[i].k = key
DictAt(d, key) == d[CHOOSE i \in 1..Len(d) : d[i].k = key].v
(* d.get(key): None when absent *)
DictGet(d, key) == IF DictHas(d, key) THEN Some(DictAt(d, key)) ELSE None
(* d[key] = val: an existing key keeps its place *)
DictPut(d, key, val) ==
    IF DictHas(d, key)
    THEN [i \in 1..Len(d) |-> IF d[i].k = key THEN [k |-> key, v |-> val] ELSE d[i]]
    ELSE Append(d, [k |-> key, v |-> val])

----------------------------------------------------------------------------
(* The string literals of handle_query. *)

s_empty == <<>>
s_space == <<" ">>
s_how_many == <<"h", "o", "w", " ", "m", "a", "n", "y">>
s_objectid == <<"o", "b", "j", "e", "c", "t", "i", "d">>
s_object == <<"o", "b", "j", "e", "c", "t">>
s_id == <<"i", "d">>
s_bus_type == <<"b", "u", "s", " ", "t", "y", "p", "e">>
s_bustype == <<"b", "u", "s", "t", "y", "p", "e">>
s_bus == <<"b", "u", "s">>
s_type == <<"t", "y", "p", "e">>
s_manufacturer == <<"m", "a", "n", "u", "f", "a", "c", "t", "u", "r", "e", "r">>
s_signal == <<"s", "i", "g", "n", "a", "l">>
s_flash_code == <<"f", "l", "a", "s", "h", " ", "c", "o", "d", "e">>
s_flash == <<"f", "l", "a", "s", "h">>
s_code == <<"c", "o", "d", "e">>
s_fault == <<"f", "a", "u", "l", "t">>
s_list == <<"l", "i", "s", "t">>
s_show_all == <<"s", "h", "o", "w", " ", "a", "l", "l">>
s_severity == <<"s", "e", "v", "e", "r", "i", "t", "y">>
s_cummins == <<"c", "u", "m", "m", "i", "n", "s">>
s_clever == <<"c", "l", "e", "v", "e", "r">>
s_why == <<"w", "h", "y">>
s_how == <<"h", "o", "w">>
s_what_should == <<"w", "h", "a", "t", " ", "s", "h", "o", "u", "l", "d">>
s_explain == <<"e", "x", "p", "l", "a", "i", "n">>
s_help == <<"h", "e", "l", "p">>
s_troubleshoot == <<"t", "r", "o", "u", "b", "l", "e", "s", "h", "o", "o", "t">>

----------------------------------------------------------------------------
(* The parsed document.  root is the sequence of its elements in document  *)
(* order; root.xpath('.//Tag') selects the elements of that tag in that    *)
(* order.  An attribute that is missing reads as the empty string: the     *)
(* code tests ObjectID with `if obj_id` (None and '' both fail) and reads  *)
(* every other attribute with the default ''.                              *)

EmptyAttributes ==
    [tag |-> s_empty, ObjectID |-> s_empty, Description |-> s_empty, UnitText |-> s_empty,
     CorrectiveAction |-> s_empty, FlashCode |-> s_empty, SeverityID |-> s_empty,
     ManufacturerAndModel |-> s_empty, FirmwareVersion |-> s_empty, BusType |-> s_empty]

DataObjects(obj_id, description, unit_text) ==
    [EmptyAttributes EXCEPT !.tag = "DataObjects", !.ObjectID = obj_id,
                            !.Description = description, !.UnitText = unit_text]

ExceptionMetadata(obj_id, corrective_action, flash_code, severity) ==
    [EmptyAttributes EXCEPT !.tag = "ExceptionMetadata", !.ObjectID = obj_id,
                            !.CorrectiveAction = corrective_action,
                            !.FlashCode = flash_code, !.SeverityID = severity]

DataPointMetadata(obj_id, manufacturer, firmware, bus_type) ==
    [EmptyAttributes EXCEPT !.tag = "DataPointMetadata", !.ObjectID = obj_id,
                            !.ManufacturerAndModel = manufacturer,
                            !.FirmwareVersion = firmware, !.BusType = bus_type]

xpath(doc, tag) == SelectSeq(doc, LAMBDA elem : elem.tag = tag)

----------------------------------------------------------------------------
(* build_diagnostic_index                                                  *)

EmptyIndex ==
    [data_objects |-> <<>>, exceptions |-> <<>>, metadata |-> <<>>,
     bus_types |-> {}, manufacturers |-> {}, flash_codes |-> <<>>,
     severity_levels |-> {}, objectid_to_bustypes |-> <<>>]

(* A DataObjects loop body that keeps the first record of an ObjectID. *)
IndexDataObjectFirst(index, elem) ==
    IF elem.ObjectID # s_empty /\ ~DictHas(index.data_objects, elem.ObjectID)
    THEN [index EXCEPT !.data_objects =
             DictPut(@, elem.ObjectID, [description |-> elem.Description,
                                        unit_text |-> elem.UnitText])]
    ELSE index

(* The body of the DataObjects loop for one element. *)
IndexDataObject(index, elem) ==
    LET obj_id == elem.ObjectID
    IN  IF obj_id # s_empty
        THEN [index EXCEPT !.data_objects =
                 DictPut(@, obj_id, [description |-> elem.Description,
                                     unit_text |-> elem.UnitText])]
        ELSE index

(* The body of the ExceptionMetadata loop for one element. *)
IndexException(index, elem) ==
    LET obj_id == elem.ObjectID
        flash_code == elem.FlashCode
        severity == elem.SeverityID
    IN  IF obj_id # s_empty
        THEN [index EXCEPT
                 !.exceptions = DictPut(@, obj_id,
                                    [corrective_action |-> elem.CorrectiveAction,
                                     flash_code |-> flash_code,
                                     severity |-> severity]),
                 !.flash_codes = IF flash_code # s_empty
                                 THEN DictPut(@, flash_code, obj_id) ELSE @,
                 !.severity_levels = IF severity # s_empty
                                     THEN @ \cup {severity} ELSE @]
        ELSE index

(* A DataPointMetadata loop body that keeps one entry per ObjectID. *)
IndexMetadataLatest(index, elem) ==
    IF elem.ObjectID # s_empty
    THEN [index EXCEPT
             !.objectid_to_bustypes =
                 DictPut(@, elem.ObjectID,
                         IF elem.BusType # s_empty THEN <<elem.BusType>> ELSE <<>>),
             !.metadata =
                 DictPut(@, elem.ObjectID,
                         <<[manufacturer |-> elem.ManufacturerAndModel,
                            firmware |-> elem.FirmwareVersion,
                            bus_type |-> elem.BusType]>>),
             !.bus_types = IF elem.BusType # s_empty THEN @ \cup {elem.BusType} ELSE @,
             !.manufacturers = IF elem.ManufacturerAndModel # s_empty
                               THEN @ \cup {elem.ManufacturerAndModel} ELSE @]
    ELSE index

(* A DataPointMetadata loop body that records the bus type only of a      *)
(* record that names its manufacturer.                                     *)
IndexMetadataNested(index, elem) ==
    IF elem.ObjectID # s_empty
    THEN [index EXCEPT
             !.objectid_to_bustypes =
                 DictPut(@, elem.ObjectID,
                         (IF DictHas(@, elem.ObjectID) THEN DictAt(@, elem.ObjectID)
                          ELSE <<>>)
                             \o (IF elem.BusType # s_empty THEN <<elem.BusType>> ELSE <<>>)),
             !.metadata =
                 DictPut(@, elem.ObjectID,
                         Append(IF DictHas(@, elem.ObjectID) THEN DictAt(@, elem.ObjectID)
                                ELSE <<>>,
                                [manufacturer |-> elem.ManufacturerAndModel,
                                 firmware |-> elem.FirmwareVersion,
                                 bus_type |-> elem.BusType])),
             !.bus_types = IF elem.BusType # s_empty /\ elem.ManufacturerAndModel # s_empty
                           THEN @ \cup {elem.BusType} ELSE @,
             !.manufacturers = IF elem.ManufacturerAndModel # s_empty
                               THEN @ \cup {elem.ManufacturerAndModel} ELSE @]
    ELSE index

(* The body of the DataPointMetadata loop for one element. *)
IndexMetadata(index, elem) ==
    LET obj_id == elem.ObjectID
        manufacturer == elem.ManufacturerAndModel
        bus_type == elem.BusType
        known == IF DictHas(index.objectid_to_bustypes, obj_id)
                 THEN DictAt(index.objectid_to_bustypes, obj_id) ELSE <<>>
        listed == IF DictHas(index.metadata, obj_id)
                  THEN DictAt(index.metadata, obj_id) ELSE <<>>
    IN  IF obj_id # s_empty
        THEN [index EXCEPT
                 !.objectid_to_bustypes =
                     DictPut(@, obj_id, IF bus_type # s_empty
                                        THEN Append(known, bus_type) ELSE known),
                 !.metadata =
                     DictPut(@, obj_id,
                             Append(listed, [manufacturer |-> manufacturer,
                                             firmware |-> elem.FirmwareVersion,
                                             bus_type |-> bus_type])),
                 !.bus_types = IF bus_type # s_empty THEN @ \cup {bus_type} ELSE @,
                 !.manufacturers = IF manufacturer # s_empty
                                   THEN @ \cup {manufacturer} ELSE @]
        ELSE index

(* for elem in root.xpath('.//DataObjects'): ... *)
RECURSIVE IndexDataObjects(_, _)
IndexDataObjects(elems, index) ==
    IF elems = <<>> THEN index
    ELSE IndexDataObjects(Tail(elems), IndexDataObject(index, Head(elems)))

(* for elem in root.xpath('.//ExceptionMetadata'): ... *)
RECURSIVE IndexExceptions(_, _)
IndexExceptions(elems, index) ==
    IF elems = <<>> THEN index
    ELSE IndexExceptions(Tail(elems), IndexException(index, Head(elems)))

(* for elem in root.xpath('.//DataPointMetadata'): ... *)
RECURSIVE IndexDataPoints(_, _)
IndexDataPoints(elems, index) ==
    IF elems = <<>> THEN index
    ELSE IndexDataPoints(Tail(elems), IndexMetadata(index, Head(elems)))

build_diagnostic_index(doc) ==
    LET signals == IndexDataObjects(xpath(doc, "DataObjects"), EmptyIndex)
        faults == IndexExceptions(xpath(doc, "ExceptionMetadata"), signals)
    IN  IndexDataPoints(xpath(doc, "DataPointMetadata"), faults)

----------------------------------------------------------------------------
(* Diagnostic query functions.                                             *)

get_complete_diagnostic(index, object_id) ==
    [object_id |-> object_id,
     data_object |-> DictGet(index.data_objects, object_id),
     exception |-> DictGet(index.exceptions, object_id),
     metadata |-> IF DictHas(index.metadata, object_id)
                  THEN DictAt(index.metadata, object_id) ELSE <<>>,
     bus_types |-> IF DictHas(index.objectid_to_bustypes, object_id)
                   THEN DictAt(index.objectid_to_bustypes, object_id) ELSE <<>>]

get_bus_types_for_objectid(index, object_id) ==
    IF DictHas(index.objectid_to_bustypes, object_id)
    THEN DictAt(index.objectid_to_bustypes, object_id) ELSE <<>>

search_by_description(index, search_term) ==
    DictKeys(SelectSeq(index.data_objects,
                       LAMBDA e : Contains(Lower(e.v.description), Lower(search_term))))

search_by_flash_code(index, flash_code) == DictGet(index.flash_codes, flash_code)

get_by_manufacturer(index, manufacturer) ==
    DictKeys(SelectSeq(index.metadata,
                       LAMBDA e : \E i \in 1..Len(e.v) :
                                      Contains(Lower(e.v[i].manufacturer),
                                               Lower(manufacturer))))

get_by_bus_type(index, bus_type) ==
    DictKeys(SelectSeq(index.metadata,
                       LAMBDA e : \E i \in 1..Len(e.v) : e.v[i].bus_type = bus_type))

----------------------------------------------------------------------------
(* Display caps of the reports and lists.                                  *)

DisplayCap == 5
DescriptionCap == 100
ConfigurationCap == 10
ManufacturerListCap == 20
TermMinLen == 4

Result(payload, st) == [answer |-> payload, status |-> st]

(* format_diagnostic_report: what the report text is made of. *)
ReportOf(diag) ==
    [kind |-> "report",
     object_id |-> diag.object_id,
     data_object |-> diag.data_object,
     exception |-> diag.exception,
     bus_types |-> IF diag.metadata # <<>> /\ diag.bus_types # <<>>
                   THEN Sorted(Range(diag.bus_types)) ELSE <<>>,
     configurations |-> Take(diag.metadata, ConfigurationCap),
     more |-> IF Len(diag.metadata) > ConfigurationCap
              THEN Len(diag.metadata) - ConfigurationCap ELSE 0]

format_diagnostic_report(index, object_id) ==
    ReportOf(get_complete_diagnostic(index, object_id))

(* re.search(lit + r'[:\s]+(tok+)', s): group 1 of the leftmost match, or  *)
(* None.  The separator and token classes are disjoint, so the greedy      *)
(* match at a start position is the only one there.  c is where the        *)
(* separators start, d where the token starts, e where it ends.            *)
TokenSpan(s, c, d, e) == IF d > c /\ e > d THEN Some(SubSeq(s, d, e - 1)) ELSE None

TokenFrom(s, c, d, tok) == TokenSpan(s, c, d, RunEnd(s, d, tok))

MarkerTokenAt(s, i, lit, tok) ==
    IF ~StartsAt(s, i, lit) THEN None
    ELSE TokenFrom(s, i + Len(lit), RunEnd(s, i + Len(lit), SepChars), tok)

(* The leftmost start, 0 when there is none. *)
Leftmost(starts) == IF starts = {} THEN 0 ELSE Min(starts)

MarkerTokenAtOrNone(s, i, lit, tok) ==
    IF i = 0 THEN None ELSE MarkerTokenAt(s, i, lit, tok)

SearchMarker(s, lit, tok) ==
    MarkerTokenAtOrNone(
        s, Leftmost({i \in 1..Len(s) : MarkerTokenAt(s, i, lit, tok) # None}), lit, tok)

(* re.search(lit1 + r'\s*' + lit2 + r'[:\s]+(tok+)', s) *)
SplitMarkerTokenAt(s, i, lit1, lit2, tok) ==
    IF ~StartsAt(s, i, lit1) THEN None
    ELSE MarkerTokenAt(s, RunEnd(s, i + Len(lit1), SpaceChars), lit2, tok)

SplitMarkerTokenAtOrNone(s, i, lit1, lit2, tok) ==
    IF i = 0 THEN None ELSE SplitMarkerTokenAt(s, i, lit1, lit2, tok)

SearchSplitMarker(s, lit1, lit2, tok) ==
    SplitMarkerTokenAtOrNone(
        s, Leftmost({i \in 1..Len(s) : SplitMarkerTokenAt(s, i, lit1, lit2, tok) # None}),
        lit1, lit2, tok)

(* One "- ObjectID ...: description[:100]" line of a result list. *)
ObjectLine(obj_id, data) ==
    [obj_id |-> obj_id,
     description |-> IF data = None THEN <<"N", "/", "A">>
                     ELSE Take(Get(data).description, DescriptionCap)]

(* for obj_id in obj_ids[:5]: ... *)
ObjectLines(index, obj_ids) ==
    [i \in 1..Len(Take(obj_ids, DisplayCap)) |->
        ObjectLine(obj_ids[i], DictGet(index.data_objects, obj_ids[i]))]

(* The "... and N more" suffix: 0 when there is none. *)
MoreCount(obj_ids) == IF Len(obj_ids) > DisplayCap THEN Len(obj_ids) - DisplayCap ELSE 0

(* The first rule that answers wins. *)
OrElse(first, rest) == IF first # None THEN first ELSE rest

(* Stats queries *)
BusTypesOf(obj_id, bus_types, unique_bus_types) ==
    IF bus_types # <<>>
    THEN Result([kind |-> "objectid_bus_types", obj_id |-> obj_id,
                 count |-> Len(unique_bus_types), items |-> unique_bus_types],
                "success")
    ELSE Result([kind |-> "objectid_not_found", obj_id |-> obj_id], "error")

(* The bus types of an ObjectID as recorded: neither sorted nor distinct. *)
ObjectIDBusTypesAsRecorded(index, obj_id) ==
    BusTypesOf(obj_id, get_bus_types_for_objectid(index, obj_id),
               get_bus_types_for_objectid(index, obj_id))

ObjectIDBusTypes(index, obj_id) ==
    BusTypesOf(obj_id, get_bus_types_for_objectid(index, obj_id),
               Sorted(Range(get_bus_types_for_objectid(index, obj_id))))

StatsObjectID(q_lower) == SearchMarker(q_lower, s_objectid, DigitChars)

StatsCue(q_lower) == Contains(q_lower, s_how_many)

CategoryCount(q_lower, index) ==
    IF Contains(q_lower, s_bus_type) \/ Contains(q_lower, s_bustype)
    THEN Some(Result([kind |-> "bus_type_count",
                      count |-> Cardinality(index.bus_types),
                      items |-> Sorted(index.bus_types)], "success"))
    ELSE IF Contains(q_lower, s_manufacturer)
    THEN Some(Result([kind |-> "manufacturer_count",
                      count |-> Cardinality(index.manufacturers)], "info"))
    ELSE IF Contains(q_lower, s_object) \/ Contains(q_lower, s_signal)
    THEN Some(Result([kind |-> "object_count",
                      count |-> Len(index.data_objects)], "success"))
    ELSE IF Contains(q_lower, s_flash_code) \/ Contains(q_lower, s_fault)
    THEN Some(Result([kind |-> "flash_code_count",
                      count |-> Len(index.flash_codes)], "success"))
    ELSE None

StatsAnswer(q_lower, index, obj_id_match) ==
    IF obj_id_match # None
    THEN Some(ObjectIDBusTypes(index, Get(obj_id_match)))
    ELSE CategoryCount(q_lower, index)

StatsQuery(q_lower, index) ==
    IF ~StatsCue(q_lower) THEN None
    ELSE StatsAnswer(q_lower, index, StatsObjectID(q_lower))

(* List queries *)
SortedList(kind, sorted, cap, st) ==
    Some(Result([kind |-> kind, count |-> Len(sorted), items |-> Take(sorted, cap)], st))

ListQuery(q_lower, index) ==
    IF ~(Contains(q_lower, s_list) \/ Contains(q_lower, s_show_all)) THEN None
    ELSE IF Contains(q_lower, s_bus_type) \/ Contains(q_lower, s_bustype)
    THEN SortedList("bus_type_list", Sorted(index.bus_types),
                    Cardinality(index.bus_types), "success")
    ELSE IF Contains(q_lower, s_manufacturer)
    THEN SortedList("manufacturer_list", Sorted(index.manufacturers),
                    ManufacturerListCap, "info")
    ELSE IF Contains(q_lower, s_severity)
    THEN SortedList("severity_list", Sorted(index.severity_levels),
                    Cardinality(index.severity_levels), "info")
    ELSE None

(* ObjectID lookup *)
ObjectIDToken(q_lower) == SearchSplitMarker(q_lower, s_object, s_id, WordChars)

ObjectIDAnswer(index, match) ==
    IF match # None
    THEN Some(Result(format_diagnostic_report(index, Get(match)), "info"))
    ELSE None

ObjectIDLookup(q_lower, index) == ObjectIDAnswer(index, ObjectIDToken(q_lower))

(* Flash code lookup *)
FlashCodeToken(q_lower) == SearchSplitMarker(q_lower, s_flash, s_code, WordChars)

FlashCodeReport(index, flash_code, obj_id) ==
    IF obj_id # None /\ Get(obj_id) # s_empty
    THEN Some(Result(format_diagnostic_report(index, Get(obj_id)), "info"))
    ELSE Some(Result([kind |-> "flash_code_not_found", flash_code |-> flash_code], "error"))

FlashCodeAnswer(index, match) ==
    IF match = None THEN None
    ELSE FlashCodeReport(index, Get(match), search_by_flash_code(index, Get(match)))

FlashCodeLookup(q_lower, index) == FlashCodeAnswer(index, FlashCodeToken(q_lower))

(* A result list that counts the lines it shows. *)
ObjectListCapped(kind, index, key, obj_ids) ==
    [kind |-> kind, key |-> key,
     count |-> Len(Take(obj_ids, DisplayCap)),
     items |-> ObjectLines(index, obj_ids),
     more |-> MoreCount(obj_ids)]

(* The count, the first lines and the "more" suffix of a result list. *)
ObjectList(kind, index, key, obj_ids) ==
    [kind |-> kind, key |-> key,
     count |-> Len(obj_ids),
     items |-> ObjectLines(index, obj_ids),
     more |-> MoreCount(obj_ids)]

(* Bus type lookup *)
BusTypeToken(q_lower) == SearchSplitMarker(q_lower, s_bus, s_type, DigitChars)

BusTypeObjects(index, bus_type, obj_ids) ==
    IF obj_ids # <<>>
    THEN Some(Result(ObjectList("bus_type_objects", index, bus_type, obj_ids), "info"))
    ELSE Some(Result([kind |-> "bus_type_not_found", bus_type |-> bus_type], "error"))

BusTypeAnswer(index, match) ==
    IF match = None THEN None
    ELSE BusTypeObjects(index, Get(match), get_by_bus_type(index, Get(match)))

BusTypeLookup(q_lower, index) == BusTypeAnswer(index, BusTypeToken(q_lower))

(* Manufacturer search.  order is the iteration order of the set           *)
(* diag_index['manufacturers'], which Python does not fix.                 *)
ManufacturerCue(q_lower) ==
    Contains(q_lower, s_manufacturer) \/ Contains(q_lower, s_cummins)
        \/ Contains(q_lower, s_clever)

ManufacturerMatches(search_term, manufacturer) ==
    Contains(manufacturer, search_term) \/ Contains(search_term, manufacturer)

ManufacturerObjects(index, manufacturer) ==
    Result(ObjectList("manufacturer_objects", index, manufacturer,
                      get_by_manufacturer(index, manufacturer)), "info")

ManufacturerAnswer(index, order, hit) ==
    IF hit = 0 THEN None ELSE Some(ManufacturerObjects(index, order[hit]))

ManufacturerHit(search_term, order) ==
    Leftmost({i \in 1..Len(order) : ManufacturerMatches(search_term, Lower(order[i]))})

ManufacturerSearch(q_lower, index, order) ==
    IF ~ManufacturerCue(q_lower) THEN None
    ELSE ManufacturerAnswer(
             index, order, ManufacturerHit(Strip(Remove(q_lower, s_manufacturer)), order))

(* Description search *)
SearchTerms(q_lower) == SelectSeq(Split(q_lower), LAMBDA word : Len(word) > TermMinLen)

(* The first term, in order, that search_by_description finds: 0 if none. *)
FirstTermFound(index, search_terms) ==
    Leftmost({i \in 1..Len(search_terms) :
                  search_by_description(index, search_terms[i]) # <<>>})

DescriptionMatches(index, term, obj_ids) ==
    ObjectList("description_matches", index, term, obj_ids)
        @@ [next |-> IF Len(obj_ids) > DisplayCap
                     THEN Some(obj_ids[DisplayCap + 1]) ELSE None]

DescriptionAnswer(index, search_terms, hit) ==
    IF hit = 0 THEN None
    ELSE Some(Result(DescriptionMatches(index, search_terms[hit],
                         search_by_description(index, search_terms[hit])), "info"))

DescriptionTerms(index, search_terms) ==
    DescriptionAnswer(index, search_terms, FirstTermFound(index, search_terms))

DescriptionSearch(q_lower, index) == DescriptionTerms(index, SearchTerms(q_lower))

(* ask_ai_about_diagnostic: None unless the client is configured.  The     *)
(* context it builds calls .get on diag['metadata'], a list: for an        *)
(* ObjectID with metadata that raises AttributeError, which the bare       *)
(* except turns into None before the completion call is made.  response is *)
(* what the completion call gives, None when it raises or gives nothing.   *)
ask_ai_about_diagnostic(index, object_id, use_ai, response) ==
    IF ~use_ai THEN None
    ELSE IF get_complete_diagnostic(index, object_id).metadata # <<>> THEN None
    ELSE response

(* The text of a completion. *)
AIText == <<"o", "k">>

AICue(q_lower) ==
    \E word \in {s_why, s_how, s_what_should, s_explain, s_help, s_troubleshoot} :
        Contains(q_lower, word)

AIAnalysis(obj_ids, ai_response) ==
    Some(Result([kind |-> "ai_analysis", response |-> Get(ai_response),
                 obj_id |-> obj_ids[1]], "success"))

(* Whether asking about the first match of a term reaches the completion  *)
(* call.                                                                   *)
AICalled(index, obj_ids) ==
    obj_ids # <<>> /\ get_complete_diagnostic(index, obj_ids[1]).metadata = <<>>

(* for term in search_terms: ... from the i-th term on.  reply is the      *)
(* number of completion calls that fail before one gives a text; a term    *)
(* without match, or whose ai_response is None, is passed over.            *)
RECURSIVE AITermsFrom(_, _, _, _, _)
AITermsFrom(index, search_terms, i, use_ai, reply) ==
    IF i > Len(search_terms) THEN None
    ELSE LET obj_ids == search_by_description(index, search_terms[i])
             ai_response ==
                 ask_ai_about_diagnostic(index, obj_ids[1], use_ai,
                                         IF reply > 0 THEN None ELSE Some(AIText))
         IN  IF obj_ids # <<>> /\ ai_response # None
             THEN AIAnalysis(obj_ids, ai_response)
             ELSE AITermsFrom(index, search_terms, i + 1, use_ai,
                              IF AICalled(index, obj_ids) /\ reply > 0
                              THEN reply - 1 ELSE reply)

(* Try AI for complex questions *)
AIQuery(q_lower, index, use_ai, reply) ==
    IF ~(use_ai /\ AICue(q_lower)) THEN None
    ELSE AITermsFrom(index, SearchTerms(q_lower), 1, use_ai, reply)

(* The fallback shown as information. *)
NotUnderstoodAsInfo == Result([kind |-> "not_understood"], "info")

NotUnderstood == Result([kind |-> "not_understood"], "error")

(* The rules with the description search tried first. *)
ClassifyDescriptionFirst(q_lower, index, use_ai, order, reply) ==
    OrElse(DescriptionSearch(q_lower, index),
    OrElse(StatsQuery(q_lower, index),
    OrElse(ListQuery(q_lower, index),
    OrElse(ObjectIDLookup(q_lower, index),
    OrElse(FlashCodeLookup(q_lower, index),
    OrElse(BusTypeLookup(q_lower, index),
    OrElse(ManufacturerSearch(q_lower, index, order),
    OrElse(AIQuery(q_lower, index, use_ai, reply),
           Some(NotUnderstood)))))))))

(* The rules of handle_query in their order, on the lower-cased question. *)
Classify(q_lower, index, use_ai, order, reply) ==
    OrElse(StatsQuery(q_lower, index),
    OrElse(ListQuery(q_lower, index),
    OrElse(ObjectIDLookup(q_lower, index),
    OrElse(FlashCodeLookup(q_lower, index),
    OrElse(BusTypeLookup(q_lower, index),
    OrElse(ManufacturerSearch(q_lower, index, order),
    OrElse(DescriptionSearch(q_lower, index),
    OrElse(AIQuery(q_lower, index, use_ai, reply),
           Some(NotUnderstood)))))))))

handle_query(question, index, use_ai, order, reply) ==
    IF Strip(question) = s_empty
    THEN Result([kind |-> "enter_question"], "warning")
    ELSE Get(Classify(Lower(question), index, use_ai, order, reply))

----------------------------------------------------------------------------
(* The session: one action per script run that changes it.                 *)

(* The iteration orders a set can have. *)
Orders(S) ==
    {f \in [1..Cardinality(S) -> S] : \A i, j \in 1..Cardinality(S) : f[i] = f[j] => i = j}

(* The completion calls a question makes when every one of them fails. *)
AICalls(index, search_terms) ==
    Cardinality({i \in 1..Len(search_terms) :
                    AICalled(index, search_by_description(index, search_terms[i]))})

(* How many completion calls fail before one gives a text: as many as the  *)
(* question makes when all of them fail.                                   *)
AIReplies(question, index, use_ai) ==
    IF use_ai /\ AICue(Lower(question))
    THEN 0..AICalls(index, SearchTerms(Lower(question)))
    ELSE {0}

(* Build index if not already done *)
IndexIfNone(index, doc) ==
    IF index = None /\ doc # None THEN Some(build_diagnostic_index(Get(doc))) ELSE index

InitWith(ai) ==
    /\ xml_loaded = FALSE
    /\ root = None
    /\ diag_index = None
    /\ USE_AI \in ai
    /\ query = s_empty
    /\ answer = None
    /\ status = "none"
    /\ upload_error = FALSE

(* A file is uploaded and parses: the run stores the root and reruns, and  *)
(* the rerun builds the index if the session has none.                     *)
UploadFrom(Docs) ==
    /\ ~xml_loaded
    /\ \E doc \in Docs :
          /\ root' = Some(doc)
          /\ xml_loaded' = TRUE
          /\ diag_index' = IndexIfNone(diag_index, Some(doc))
    /\ upload_error' = FALSE
    /\ UNCHANGED <<USE_AI, query, answer, status>>

(* A file is uploaded and etree.parse raises: the run shows the error and  *)
(* stops before anything is stored.                                        *)
UploadFails ==
    /\ ~xml_loaded
    /\ upload_error' = TRUE
    /\ UNCHANGED <<xml_loaded, root, diag_index, USE_AI, query, answer, status>>

(* Search is clicked with a non-empty query: the run, which has built the  *)
(* index if the session had none, calls handle_query and shows answer and  *)
(* status, which are locals of that run.                                   *)
SearchFrom(Questions) ==
    /\ xml_loaded
    /\ status = "none"
    /\ diag_index' = IndexIfNone(diag_index, root)
    /\ \E question \in Questions :
          /\ question # s_empty
          /\ \E order \in Orders(Get(diag_index').manufacturers),
                reply \in AIReplies(question, Get(diag_index'), USE_AI) :
                /\ query' = question
                /\ answer' = Some(handle_query(question, Get(diag_index'), USE_AI,
                                               order, reply).answer)
                /\ status' = handle_query(question, Get(diag_index'), USE_AI,
                                          order, reply).status
    /\ UNCHANGED <<xml_loaded, root, USE_AI, upload_error>>

(* The run that searched is over: the next run starts without its locals. *)
EndRun ==
    /\ status # "none"
    /\ query' = s_empty
    /\ answer' = None
    /\ status' = "none"
    /\ UNCHANGED <<xml_loaded, root, diag_index, USE_AI, upload_error>>

(* A reload that leaves the index of the session in place. *)
ReloadKeepsIndex ==
    /\ xml_loaded
    /\ xml_loaded' = FALSE
    /\ root' = None
    /\ query' = s_empty
    /\ answer' = None
    /\ status' = "none"
    /\ UNCHANGED <<diag_index, USE_AI, upload_error>>

(* "Load New XML File": the session is cleared and the run restarts at the *)
(* upload page.                                                            *)
Reload ==
    /\ xml_loaded
    /\ xml_loaded' = FALSE
    /\ root' = None
    /\ diag_index' = None
    /\ query' = s_empty
    /\ answer' = None
    /\ status' = "none"
    /\ UNCHANGED <<USE_AI, upload_error>>

----------------------------------------------------------------------------
(* The inputs of the checked instances: attribute values and question     *)
(* words.                                                                 *)

t_1234 == <<"1", "2", "3", "4">>
t_77 == <<"7", "7">>
t_7 == <<"7">>
t_12 == <<"1", "2">>
t_5 == <<"5">>
t_2 == <<"2">>
t_1 == <<"1">>
t_38 == <<"3", "8">>
t_47 == <<"4", "7">>
t_A1 == <<"A", "1">>
t_Brake == <<"B", "r", "a", "k", "e">>
t_Oil == <<"O", "i", "l">>
t_psi == <<"p", "s", "i">>
t_Fix == <<"F", "i", "x">>
t_Swap == <<"S", "w", "a", "p">>
t_Cummins == <<"C", "u", "m", "m", "i", "n", "s">>
t_Clever == <<"C", "l", "e", "v", "e", "r">>
t_Brake_Fluid == <<"B", "r", "a", "k", "e", " ", "F", "l", "u", "i", "d">>
t_Search_Lamp_Brake == <<"S", "e", "a", "r", "c", "h", " ", "L", "a", "m", "p", " ", "B", "r", "a", "k", "e">>
t_Brake_Disc == <<"B", "r", "a", "k", "e", " ", "D", "i", "s", "c">>
t_Oil_Level == <<"O", "i", "l", " ", "L", "e", "v", "e", "l">>
w_How_many == <<"H", "o", "w", " ", "m", "a", "n", "y">>
w_count == <<"c", "o", "u", "n", "t">>
w_bus_types == <<"b", "u", "s", " ", "t", "y", "p", "e", "s">>
w_signals == <<"s", "i", "g", "n", "a", "l", "s">>
w_ObjectID == <<"O", "b", "j", "e", "c", "t", "I", "D">>
w_flash_code == <<"f", "l", "a", "s", "h", " ", "c", "o", "d", "e">>
w_search == <<"s", "e", "a", "r", "c", "h">>
w_brake == <<"b", "r", "a", "k", "e">>
w_Bus_Type == <<"B", "u", "s", " ", "T", "y", "p", "e">>
w_bustype_colon == <<"b", "u", "s", "t", "y", "p", "e", ":">>
w_manufacturer == <<"m", "a", "n", "u", "f", "a", "c", "t", "u", "r", "e", "r">>
w_manufacturers == <<"m", "a", "n", "u", "f", "a", "c", "t", "u", "r", "e", "r", "s">>

(* The sequences over S of length at most n. *)
SeqsUpTo(S, n) == UNION {[1..k -> S] : k \in 0..n}

(* Those without a repeated element. *)
DistinctSeqsUpTo(S, n) ==
    {f \in SeqsUpTo(S, n) : \A i, j \in 1..Len(f) : f[i] = f[j] => i = j}

(* The subsequences of pool with at most n elements. *)
RECURSIVE Pick(_, _)
Pick(pool, keep) ==
    IF pool = <<>> THEN <<>>
    ELSE (IF Len(pool) \in keep THEN <<pool[Len(pool)]>> ELSE <<>>)
             \o Pick(SubSeq(pool, 1, Len(pool) - 1), keep)

RECURSIVE Reverse(_)
Reverse(seq) == IF seq = <<>> THEN <<>> ELSE Reverse(Tail(seq)) \o <<Head(seq)>>

SubSeqsUpTo(pool, n) ==
    {Reverse(Pick(pool, keep)) : keep \in {K \in SUBSET (1..Len(pool)) : Cardinality(K) <= n}}

(* ' '.join of the non-empty parts. *)
RECURSIVE Join(_)
Join(parts) ==
    IF parts = <<>> THEN <<>>
    ELSE LET rest == Join(Tail(parts))
         IN  IF Head(parts) = <<>> THEN rest
             ELSE IF rest = <<>> THEN Head(parts)
             ELSE Head(parts) \o <<" ">> \o rest

(* Questions cue + category + marker + token + free words. *)
QuestionsOf(cues, categories, markers, tokens, words) ==
    {Join(<<cue, category, marker, token>> \o tail) :
        cue \in cues, category \in categories, marker \in markers,
        token \in tokens, tail \in DistinctSeqsUpTo(words, MaxTail)}

(* Index building: every document of at most MaxRecords elements. *)
BuildIds == {s_empty, t_7, t_12}

BuildElements ==
    {DataObjects(id, t_Brake, t_psi) : id \in BuildIds}
        \cup {DataObjects(id, t_Oil, s_empty) : id \in BuildIds}
        \cup {ExceptionMetadata(id, t_Fix, t_5, t_2) : id \in BuildIds}
        \cup {ExceptionMetadata(id, t_Swap, s_empty, s_empty) : id \in BuildIds}
        \cup {DataPointMetadata(id, t_Cummins, t_1, t_38) : id \in BuildIds}
        \cup {DataPointMetadata(id, t_Clever, s_empty, s_empty) : id \in BuildIds}
        \cup {DataPointMetadata(id, s_empty, s_empty, t_47) : id \in BuildIds}

BuildDocs == SeqsUpTo(BuildElements, MaxRecords)

(* Query classification: the documents drawn from a pool of records. *)
QueryPool ==
    <<DataObjects(t_1234, t_Brake_Fluid, t_psi),
      DataObjects(t_77, t_Search_Lamp_Brake, s_empty),
      ExceptionMetadata(t_1234, t_Fix, t_A1, t_2),
      ExceptionMetadata(t_77, t_Swap, t_1234, s_empty),
      DataPointMetadata(t_1234, t_Cummins, t_1, t_47),
      DataPointMetadata(t_1234, t_Clever, s_empty, t_38)>>

QueryDocs == SubSeqsUpTo(QueryPool, MaxQueryRecords)

QueryQuestions ==
    QuestionsOf({s_empty, w_How_many, w_count},
                {s_empty, w_bus_types, w_manufacturers, w_signals},
                {s_empty, w_ObjectID, w_flash_code}, {s_empty, t_1234, t_A1},
                {w_search, w_brake}) \cup {s_space}

(* Pagination: documents of up to MaxPageIds identifiers, each with one of *)
(* two record profiles.                                                    *)
PageProfiles == {"disc", "oil"}

PageId(i) == <<Digits[i + 1]>>

PageRecords(profile, id) ==
    IF profile = "disc"
    THEN <<DataObjects(id, t_Brake_Disc, t_psi),
           DataPointMetadata(id, t_Cummins, t_1, t_38),
           DataPointMetadata(id, t_Cummins, t_1, t_38)>>
    ELSE <<DataPointMetadata(id, t_Clever, s_empty, t_47)>>

RECURSIVE PageDoc(_, _)
PageDoc(profiles, i) ==
    IF i > Len(profiles) THEN <<>>
    ELSE PageRecords(profiles[i], PageId(i)) \o PageDoc(profiles, i + 1)

PageDocs == {PageDoc(profiles, 1) : profiles \in SeqsUpTo(PageProfiles, MaxPageIds)}

PageQuestions ==
    QuestionsOf({s_empty}, {s_empty}, {s_empty, w_Bus_Type, w_bustype_colon, w_manufacturer},
                {s_empty, t_38, t_47, t_Cummins}, {w_brake})

----------------------------------------------------------------------------
(* The specifications.                                                     *)

InitBuild == InitWith({FALSE})
NextBuild == UploadFrom(BuildDocs) \/ Reload
SpecBuild == InitBuild /\ [][NextBuild]_vars

InitQuery == InitWith(BOOLEAN)
NextQuery ==
    UploadFrom(QueryDocs) \/ UploadFails \/ SearchFrom(QueryQuestions) \/ EndRun \/ Reload
SpecQuery == InitQuery /\ [][NextQuery]_vars

InitPage == InitWith({FALSE})
NextPage == UploadFrom(PageDocs) \/ SearchFrom(PageQuestions) \/ EndRun \/ Reload
SpecPage == InitPage /\ [][NextPage]_vars

----------------------------------------------------------------------------
(* What the claims speak of, read from the document itself.                *)

Loaded == diag_index # None
idx == Get(diag_index)
doc == Get(root)

(* The elements of a section that carry an ObjectID: the others are        *)
(* dropped by the index.                                                   *)
Identified(tag) == SelectSeq(xpath(doc, tag), LAMBDA elem : elem.ObjectID # s_empty)
RecordsOf(tag, id) == SelectSeq(xpath(doc, tag), LAMBDA elem : elem.ObjectID = id)
Last(seq) == seq[Len(seq)]

IdentifiersOf(tag) == {elem.ObjectID : elem \in Range(Identified(tag))}
Identifiers ==
    IdentifiersOf("DataObjects") \cup IdentifiersOf("ExceptionMetadata")
        \cup IdentifiersOf("DataPointMetadata")

SignalEntry(elem) == [description |-> elem.Description, unit_text |-> elem.UnitText]
FaultEntry(elem) ==
    [corrective_action |-> elem.CorrectiveAction, flash_code |-> elem.FlashCode,
     severity |-> elem.SeverityID]
HardwareEntry(elem) ==
    [manufacturer |-> elem.ManufacturerAndModel, firmware |-> elem.FirmwareVersion,
     bus_type |-> elem.BusType]

HardwareOf(id) ==
    [i \in 1..Len(RecordsOf("DataPointMetadata", id)) |->
        HardwareEntry(RecordsOf("DataPointMetadata", id)[i])]

----------------------------------------------------------------------------
(* C4 as stated: index['bus_types'] is exactly the set of the non-empty    *)
(* BusType values of all DataPointMetadata records of the input.           *)
C4_BusTypesOfAllRecords ==
    Loaded =>
        idx.bus_types =
            {elem.BusType : elem \in Range(xpath(doc, "DataPointMetadata"))} \ {s_empty}

(* C4 amended: index['bus_types'] is exactly the set of the non-empty      *)
(* BusType values of the DataPointMetadata records that carry a non-empty  *)
(* ObjectID; a record without ObjectID contributes nothing.                *)
C4_BusTypesOfIdentifiedRecords ==
    Loaded =>
        idx.bus_types =
            {elem.BusType : elem \in Range(Identified("DataPointMetadata"))} \ {s_empty}

(* A document with two identified records of different bus types, one of   *)
(* them without manufacturer, and a bus type on a record without ObjectID. *)
C4_Witness ==
    /\ Loaded
    /\ Cardinality(idx.bus_types) = 2
    /\ \E elem \in Range(xpath(doc, "DataPointMetadata")) :
          elem.ObjectID = s_empty /\ elem.BusType # s_empty

(* C5: for every Identifier of the input, get_complete_diagnostic returns  *)
(* its DataPointMetadata records in source order, repeated combinations    *)
(* kept, and a signal and a fault entry exactly when some were supplied    *)
(* for it, each being one of those supplied.                               *)
C5_RoundTrip ==
    Loaded =>
        \A id \in Identifiers :
            LET diag == get_complete_diagnostic(idx, id)
                signals == RecordsOf("DataObjects", id)
                faults == RecordsOf("ExceptionMetadata", id)
            IN  /\ diag.object_id = id
                /\ diag.metadata = HardwareOf(id)
                /\ IF signals = <<>> THEN diag.data_object = None
                   ELSE /\ diag.data_object # None
                        /\ \E i \in 1..Len(signals) :
                               Get(diag.data_object) = SignalEntry(signals[i])
                /\ IF faults = <<>> THEN diag.exception = None
                   ELSE /\ diag.exception # None
                        /\ \E i \in 1..Len(faults) :
                               Get(diag.exception) = FaultEntry(faults[i])

(* An Identifier whose hardware sequence repeats a combination, looked up  *)
(* with all its records returned.                                          *)
C5_Witness ==
    /\ Loaded
    /\ \E id \in Identifiers :
          /\ Len(get_complete_diagnostic(idx, id).metadata) >= 2
          /\ get_complete_diagnostic(idx, id).metadata[1]
                 = get_complete_diagnostic(idx, id).metadata[2]

(* C6: data_objects keeps, per Identifier, the attributes of the last      *)
(* DataObjects record in source order, exceptions those of the last        *)
(* ExceptionMetadata record, and flash_codes maps each non-empty flash     *)
(* code to the Identifier of the last identified record carrying it.       *)
C6_LastWriteWins ==
    Loaded =>
        /\ \A id \in IdentifiersOf("DataObjects") :
               DictGet(idx.data_objects, id)
                   = Some(SignalEntry(Last(RecordsOf("DataObjects", id))))
        /\ \A id \in IdentifiersOf("ExceptionMetadata") :
               DictGet(idx.exceptions, id)
                   = Some(FaultEntry(Last(RecordsOf("ExceptionMetadata", id))))
        /\ \A code \in {elem.FlashCode : elem \in Range(Identified("ExceptionMetadata"))}
                           \ {s_empty} :
               DictGet(idx.flash_codes, code)
                   = Some(Last(SelectSeq(Identified("ExceptionMetadata"),
                                         LAMBDA elem : elem.FlashCode = code)).ObjectID)

(* Two DataObjects records of one Identifier with different descriptions,  *)
(* the index holding the later one.                                        *)
C6_Witness ==
    /\ Loaded
    /\ \E id \in IdentifiersOf("DataObjects") :
          /\ Len(RecordsOf("DataObjects", id)) >= 2
          /\ RecordsOf("DataObjects", id)[1].Description
                 # Last(RecordsOf("DataObjects", id)).Description
          /\ DictAt(idx.data_objects, id).description
                 = Last(RecordsOf("DataObjects", id)).Description

----------------------------------------------------------------------------
(* What the query claims speak of: the question of the run that searched   *)
(* and what it showed.                                                     *)

Asked == status # "none"
ans == Get(answer)
asked == Lower(query)

LongWords(s) == SelectSeq(Split(s), LAMBDA word : Len(word) > 4)

BusTypesCue(s) == Contains(s, s_bus_type) \/ Contains(s, s_bustype)

CategoryCue(s) ==
    \/ BusTypesCue(s)
    \/ Contains(s, s_manufacturer)
    \/ Contains(s, s_object) \/ Contains(s, s_signal)
    \/ Contains(s, s_flash_code) \/ Contains(s, s_fault)

CountKinds ==
    {"objectid_bus_types", "objectid_not_found", "bus_type_count", "manufacturer_count",
     "object_count", "flash_code_count"}

(* The ObjectIDs of a section in the order of their first record. *)
RECURSIVE FirstSeen(_, _)
FirstSeen(elems, seen) ==
    IF elems = <<>> THEN seen
    ELSE FirstSeen(Tail(elems),
                   IF Head(elems).ObjectID \in Range(seen) THEN seen
                   ELSE Append(seen, Head(elems).ObjectID))

(* The non-empty BusType values of the DataPointMetadata records of id. *)
BusTypesIn(id) ==
    {elem.BusType : elem \in Range(RecordsOf("DataPointMetadata", id))} \ {s_empty}

AllBusTypes ==
    {elem.BusType : elem \in Range(Identified("DataPointMetadata"))} \ {s_empty}

AllFlashCodes ==
    {elem.FlashCode : elem \in Range(Identified("ExceptionMetadata"))} \ {s_empty}

AllManufacturers ==
    {elem.ManufacturerAndModel : elem \in Range(Identified("DataPointMetadata"))}
        \ {s_empty}

(* The token that follows a marker typed at the start of the question,     *)
(* as typed: None when the question is not "<marker> <token>".             *)
TypedToken(marker) ==
    IF /\ Len(query) > Len(marker) + 1
       /\ SubSeq(query, 1, Len(marker) + 1) = marker \o <<" ">>
       /\ \A i \in (Len(marker) + 2)..Len(query) : IsWordChar(query[i])
    THEN Some(SubSeq(query, Len(marker) + 2, Len(query)))
    ELSE None

----------------------------------------------------------------------------
(* C1 as stated: an identifier-lookup question ("objectid <token>") whose  *)
(* token is a key of none of data_objects, exceptions and metadata gets    *)
(* status error and no report; a report is returned only for a token that  *)
(* is a key of at least one of the three maps.                             *)
C1_UnknownIdentifierIsError ==
    Asked /\ TypedToken(w_ObjectID) # None =>
        LET token == Get(TypedToken(w_ObjectID))
            present == \/ DictHas(idx.data_objects, token)
                       \/ DictHas(idx.exceptions, token)
                       \/ DictHas(idx.metadata, token)
        IN  /\ ~present => status = "error"
            /\ ans.kind = "report" => present

----------------------------------------------------------------------------
(* C2 as stated: a question with a count cue ('how many' or 'count'), a    *)
(* category cue and a word longer than 4 characters gets the aggregate     *)
(* count answer and never the description search.                          *)
C2_CountCuePrecedence ==
    Asked /\ (Contains(asked, s_how_many) \/ Contains(asked, w_count))
          /\ CategoryCue(asked) /\ LongWords(asked) # <<>> =>
        ans.kind \in CountKinds

(* C2 amended: a question with the cue 'how many', a category cue and a    *)
(* word longer than 4 characters gets the aggregate count answer: the      *)
(* per-ObjectID bus types when 'objectid' followed by digits occurs in it, *)
(* else the count of the first category, in the order bus types,           *)
(* manufacturers, objects/signals, flash codes/faults; it never gets the   *)
(* description search.                                                     *)
C2_HowManyPrecedence ==
    Asked /\ Contains(asked, s_how_many) /\ CategoryCue(asked)
          /\ LongWords(asked) # <<>> =>
        IF SearchMarker(asked, s_objectid, DigitChars) # None
        THEN ans.kind \in {"objectid_bus_types", "objectid_not_found"}
        ELSE IF BusTypesCue(asked)
        THEN ans.kind = "bus_type_count"
        ELSE IF Contains(asked, s_manufacturer)
        THEN /\ ans.kind = "manufacturer_count"
             /\ ans.count = Cardinality(AllManufacturers)
        ELSE IF Contains(asked, s_object) \/ Contains(asked, s_signal)
        THEN /\ ans.kind = "object_count"
             /\ ans.count = Cardinality(IdentifiersOf("DataObjects"))
        ELSE /\ ans.kind = "flash_code_count"
             /\ ans.count = Cardinality(AllFlashCodes)

(* A 'how many signals' question with a further word that a signal         *)
(* description contains, answered with the number of signals.              *)
C2_Witness ==
    /\ Asked
    /\ Contains(asked, s_how_many)
    /\ ans.kind = "object_count"
    /\ ans.count = 2
    /\ \E i \in 1..Len(LongWords(asked)) :
          search_by_description(idx, LongWords(asked)[i]) # <<>>

----------------------------------------------------------------------------
(* C3: the bus-type filter, the manufacturer filter and the description    *)
(* search report the size N of the full result set, list its first         *)
(* min(N, 5) Identifiers in order, and carry the suffix "... and N - 5     *)
(* more" exactly when N exceeds 5.                                         *)
C3_Pagination ==
    Asked /\ ans.kind \in {"bus_type_objects", "manufacturer_objects",
                           "description_matches"} =>
        LET full == IF ans.kind = "bus_type_objects"
                    THEN SelectSeq(FirstSeen(Identified("DataPointMetadata"), <<>>),
                                   LAMBDA id : ans.key \in BusTypesIn(id))
                    ELSE IF ans.kind = "manufacturer_objects"
                    THEN SelectSeq(FirstSeen(Identified("DataPointMetadata"), <<>>),
                                   LAMBDA id :
                                       \E elem \in Range(RecordsOf("DataPointMetadata", id)) :
                                           Contains(Lower(elem.ManufacturerAndModel),
                                                    Lower(ans.key)))
                    ELSE SelectSeq(FirstSeen(Identified("DataObjects"), <<>>),
                                   LAMBDA id :
                                       Contains(Lower(Last(RecordsOf("DataObjects", id))
                                                          .Description),
                                                Lower(ans.key)))
            N == Len(full)
        IN  /\ ans.count = N
            /\ Len(ans.items) = IF N > 5 THEN 5 ELSE N
            /\ \A i \in 1..Len(ans.items) : ans.items[i].obj_id = full[i]
            /\ ans.more = IF N > 5 THEN N - 5 ELSE 0

(* A bus-type filter with more Identifiers than the cap: five listed, the  *)
(* rest counted in the suffix.                                             *)
C3_Witness ==
    /\ Asked
    /\ ans.kind = "bus_type_objects"
    /\ ans.count > DisplayCap
    /\ Len(ans.items) = DisplayCap
    /\ ans.more = ans.count - DisplayCap

----------------------------------------------------------------------------
(* C7 as stated: the question "flash code <c>" returns the report of       *)
(* flash_codes[c] when c is a key of flash_codes, and status error when    *)
(* it is not.                                                              *)
C7_FlashCodeLookup ==
    Asked /\ TypedToken(w_flash_code) # None =>
        LET c == Get(TypedToken(w_flash_code))
        IN  IF DictHas(idx.flash_codes, c)
            THEN /\ ans = format_diagnostic_report(idx, DictAt(idx.flash_codes, c))
                 /\ status = "info"
            ELSE status = "error"

----------------------------------------------------------------------------
(* C8 as stated: a question that no earlier rule answers is searched by    *)
(* its words longer than 4 characters that are not in {show, find,         *)
(* search}, in order; the result is the info answer for the first of them  *)
(* that some signal description contains, with the number of all such      *)
(* signals.                                                                *)
C8_SearchTermsSkipStoplist ==
    Asked /\ Strip(query) # s_empty
          /\ StatsQuery(asked, idx) = None /\ ListQuery(asked, idx) = None
          /\ ObjectIDLookup(asked, idx) = None /\ FlashCodeLookup(asked, idx) = None
          /\ BusTypeLookup(asked, idx) = None /\ ~ManufacturerCue(asked) =>
        LET stoplist == {<<"s", "h", "o", "w">>, <<"f", "i", "n", "d">>, w_search}
            terms == SelectSeq(LongWords(asked), LAMBDA word : word \notin stoplist)
            signals(term) ==
                {id \in IdentifiersOf("DataObjects") :
                    Contains(Lower(Last(RecordsOf("DataObjects", id)).Description), term)}
            found == {i \in 1..Len(terms) : signals(terms[i]) # {}}
        IN  IF found = {} THEN ans.kind # "description_matches"
            ELSE /\ ans.kind = "description_matches"
                 /\ status = "info"
                 /\ ans.key = terms[Min(found)]
                 /\ ans.count = Cardinality(signals(terms[Min(found)]))

----------------------------------------------------------------------------
(* C9: every search ends with a payload and a status among success, info,  *)
(* warning and error; a question that no rule answers gets status error    *)
(* and the fixed 'Query not understood' payload, and only such a question  *)
(* gets it.                                                                *)
C9_Totality ==
    Asked =>
        /\ answer # None
        /\ status \in {"success", "info", "warning", "error"}
        /\ (ans.kind = "not_understood" /\ status = "error")
               <=> /\ Strip(query) # s_empty
                   /\ StatsQuery(asked, idx) = None
                   /\ ListQuery(asked, idx) = None
                   /\ ObjectIDLookup(asked, idx) = None
                   /\ FlashCodeLookup(asked, idx) = None
                   /\ BusTypeLookup(asked, idx) = None
                   /\ \A order \in Orders(idx.manufacturers) :
                          ManufacturerSearch(asked, idx, order) = None
                   /\ DescriptionSearch(asked, idx) = None

(* A question with a word longer than 4 characters on a document with      *)
(* signals, which no rule answers.                                         *)
C9_Witness ==
    /\ Asked
    /\ ans.kind = "not_understood"
    /\ status = "error"
    /\ LongWords(asked) # <<>>
    /\ Len(idx.data_objects) > 0

----------------------------------------------------------------------------
(* C10 as stated: a 'how many' question with the bus types cue and a       *)
(* numeral of at least 4 digits is answered for that Identifier: success   *)
(* with its sorted distinct bus types and their number when it has some,   *)
(* else error; without such a numeral it gets success with the size and    *)
(* the sorted list of index['bus_types'].                                  *)
C10_BusTypesOfNumeral ==
    Asked /\ Contains(asked, s_how_many) /\ BusTypesCue(asked) =>
        LET numerals == SelectSeq(Split(asked),
                                  LAMBDA word : /\ Len(word) >= 4
                                                /\ \A i \in 1..Len(word) : IsDigit(word[i]))
        IN  IF numerals # <<>>
            THEN IF BusTypesIn(numerals[1]) # {}
                 THEN /\ status = "success"
                      /\ ans.kind = "objectid_bus_types"
                      /\ ans.items = Sorted(BusTypesIn(numerals[1]))
                      /\ ans.count = Cardinality(BusTypesIn(numerals[1]))
                 ELSE status = "error"
            ELSE /\ status = "success"
                 /\ ans.kind = "bus_type_count"
                 /\ ans.count = Cardinality(AllBusTypes)
                 /\ ans.items = Sorted(AllBusTypes)

(* C10 amended: a 'how many' question with the bus types cue in which      *)
(* 'objectid', separators (colon or white space) and digits occur is       *)
(* answered for the ObjectID those digits name: success with its sorted    *)
(* distinct bus types and their number when it has some, else error 'not   *)
(* found'; without that marker it gets success with the size and the       *)
(* sorted list of index['bus_types'], whatever numerals it contains.       *)
C10_BusTypesOfObjectID ==
    Asked /\ Contains(asked, s_how_many) /\ BusTypesCue(asked) =>
        IF SearchMarker(asked, s_objectid, DigitChars) # None
        THEN LET id == Get(SearchMarker(asked, s_objectid, DigitChars))
             IN  IF BusTypesIn(id) # {}
                 THEN /\ status = "success"
                      /\ ans.kind = "objectid_bus_types"
                      /\ ans.obj_id = id
                      /\ ans.items = Sorted(BusTypesIn(id))
                      /\ ans.count = Cardinality(BusTypesIn(id))
                 ELSE /\ status = "error"
                      /\ ans.kind = "objectid_not_found"
        ELSE /\ status = "success"
             /\ ans.kind = "bus_type_count"
             /\ ans.count = Cardinality(AllBusTypes)
             /\ ans.items = Sorted(AllBusTypes)

(* 'How many bus types ObjectID 1234' on a document where 1234 has two bus *)
(* types, recorded in descending order.                                    *)
C10_Witness ==
    /\ Asked
    /\ BusTypesCue(asked)
    /\ ans.kind = "objectid_bus_types"
    /\ ans.count = 2
    /\ get_bus_types_for_objectid(idx, ans.obj_id) # ans.items

----------------------------------------------------------------------------
(* C11: while a document is loaded the session holds that document and     *)
(* the index build_diagnostic_index gives for it, nothing of an earlier    *)
(* document; the answer of a search is the one handle_query gives on that  *)
(* index; while no document is loaded, and so after a reload or a failed   *)
(* parse, the session holds neither a root nor an index.                   *)
C11_IndexOfLoadedDocument ==
    /\ xml_loaded =>
           /\ root # None
           /\ diag_index = Some(build_diagnostic_index(Get(root)))
    /\ ~xml_loaded => root = None /\ diag_index = None
    /\ upload_error => ~xml_loaded
    /\ Asked =>
           /\ xml_loaded
           /\ \E order \in Orders(build_diagnostic_index(doc).manufacturers),
                 reply \in AIReplies(query, build_diagnostic_index(doc), USE_AI) :
                  /\ ans = handle_query(query, build_diagnostic_index(doc), USE_AI,
                                        order, reply).answer
                  /\ status = handle_query(query, build_diagnostic_index(doc), USE_AI,
                                           order, reply).status

(* A search answered with the report of an ObjectID whose signal the       *)
(* loaded document describes.                                              *)
C11_Witness ==
    /\ Asked
    /\ diag_index = Some(build_diagnostic_index(doc))
    /\ ans.kind = "report"
    /\ ans.data_object # None
    /\ \E elem \in Range(xpath(doc, "DataObjects")) : elem.ObjectID = ans.object_id

----------------------------------------------------------------------------
(* C12 as stated: a question with an explanatory cue that none of the      *)
(* structured rules answers is, when the collaborator is configured and    *)
(* one of its words longer than 4 characters matches a signal description, *)
(* answered with status success by the collaborator's analysis citing a    *)
(* matching ObjectID, or, when the call fails, with the 'Query not         *)
(* understood' error; when no word matches it gets the 'Query not          *)
(* understood' error, with or without collaborator.                        *)
C12_AIFallback ==
    Asked /\ Strip(query) # s_empty /\ AICue(asked)
          /\ StatsQuery(asked, idx) = None /\ ListQuery(asked, idx) = None
          /\ ObjectIDLookup(asked, idx) = None /\ FlashCodeLookup(asked, idx) = None
          /\ BusTypeLookup(asked, idx) = None /\ ~ManufacturerCue(asked) =>
        LET terms == LongWords(asked)
            found == {i \in 1..Len(terms) : search_by_description(idx, terms[i]) # <<>>}
        IN  IF found = {}
            THEN /\ status = "error"
                 /\ ans.kind = "not_understood"
            ELSE USE_AI =>
                     \/ /\ status = "success"
                        /\ ans.kind = "ai_analysis"
                        /\ \E i \in found :
                               ans.obj_id = search_by_description(idx, terms[i])[1]
                     \/ /\ status = "error"
                        /\ ans.kind = "not_understood"

====
